---- MODULE Spec2Model ----
(***************************************************************************)
(* A model of tapioca: the type-indexed registry TypeMap (src/typemap.rs)  *)
(* and the layered resolver Injector with its generic call dispatch        *)
(* (src/lib.rs).                                                           *)
(*                                                                         *)
(* Option<T> is modelled as a sequence: None is <<>>, Some(v) is <<v>>.    *)
(* A Box<dyn Any> is a record [tid, val]: the TypeId of the boxed value    *)
(* and the value; downcasting compares the TypeId, as Any does.            *)
(* A value of type Arc<Mutex<u32>> is the identity of a shared cell whose  *)
(* content lives in `heap`; values of the plain types are numbers.         *)
(***************************************************************************)
EXTENDS Integers, Sequences, FiniteSets, TLC

\* ------------------------------------------------------------- bounds
\* number of Injector objects the embedding program creates
NumInjectors == 3
\* the values of each type are numbered 0..MaxVal: the numbers themselves for
\* u32, the shared cells the embedding program created for Arc<Mutex<u32>>
MaxVal == 1
\* callables passed to call declare 1..MaxArity parameters
MaxArity == 2
\* number of operations performed in a run
MaxOps == 4

\* the initial content of a shared cell: Arc::new(Mutex::new(20u32))
CellInit == 20

Ids == 1..NumInjectors
Cells == 0..MaxVal
U32 == "u32"
ArcMutexU32 == "Arc<Mutex<u32>>"
\* TypeId::of::<T>() of the types the embedding program registers: a plain
\* type and a shared mutable cell
TypeIds == {U32, ArcMutexU32}
\* the values of type T
ValuesOf(T) == 0..MaxVal

None == <<>>
Some(v) == <<v>>
Unit == <<>>

VARIABLES
  inj,       \* inj[i] = [values |-> TypeMap, parent |-> Option<id>]: the Injectors
  borrowed,  \* the Injectors mutably borrowed as some Injector's parent
  heap,      \* heap[c]: the u32 inside the Mutex of shared cell c
  last,      \* the Injector operation performed last, its arguments and its result
  ops,       \* number of operations performed so far
  tm,        \* a TypeMap used on its own
  tmLast     \* the TypeMap operation performed last on tm, and its result

vars == <<inj, borrowed, heap, last, ops, tm, tmLast>>
injVars == <<inj, borrowed, heap, last, ops>>
tmVars == <<tm, tmLast>>

\* ------------------------------------------------------------ TypeMap
\* Box::new(val) as Box<dyn Any>
Box(T, val) == [tid |-> T, val |-> val]

\* <dyn Any>::downcast_ref::<T>() / downcast_mut::<T>() / Box<dyn Any>::downcast::<T>().ok()
downcast(boxed, T) == IF boxed.tid = T THEN Some(boxed.val) ELSE None

\* BTreeMap::default()
BTreeMap_default == [k \in {} |-> Box(U32, 0)]

\* BTreeMap::insert(k, v): the new map and the value k had before, if any
BTreeMap_insert(m, k, v) ==
  [map |-> [x \in DOMAIN m \cup {k} |-> IF x = k THEN v ELSE m[x]],
   old |-> IF k \in DOMAIN m THEN Some(m[k]) ELSE None]

\* BTreeMap::get(k) / BTreeMap::get_mut(k)
BTreeMap_get(m, k) == IF k \in DOMAIN m THEN Some(m[k]) ELSE None

\* BTreeMap::remove(k): the new map and the value removed, if any
BTreeMap_remove(m, k) ==
  [map |-> [x \in DOMAIN m \ {k} |-> m[x]],
   old |-> IF k \in DOMAIN m THEN Some(m[k]) ELSE None]

\* Option::and_then(f) with f = a downcast to T
and_then_downcast(o, T) == IF o = None THEN None ELSE downcast(o[1], T)

\* TypeMap::new()
TypeMap_new == BTreeMap_default

\* mutant of TypeMap_insert: an entry already present is kept (entry().or_insert)
TypeMap_insert_keep(self, T, val) ==
  [self |-> IF T \in DOMAIN self THEN self
            ELSE BTreeMap_insert(self, T, Box(T, val)).map,
   ret |-> Unit]

\* TypeMap::insert::<T>(val): the BTreeMap's result is dropped, () is returned
TypeMap_insert(self, T, val) ==
  [self |-> BTreeMap_insert(self, T, Box(T, val)).map, ret |-> Unit]

\* TypeMap::contains::<T>()
TypeMap_contains(self, T) == BTreeMap_get(self, T) # None

\* TypeMap::get::<T>()
TypeMap_get(self, T) == and_then_downcast(BTreeMap_get(self, T), T)

\* TypeMap::get_mut::<T>(): the key of the entry the returned &mut T points into
TypeMap_get_mut(self, T) ==
  IF and_then_downcast(BTreeMap_get(self, T), T) = None THEN None ELSE Some(T)

\* mutant of TypeMap_remove: the entry is looked up but left in the map
TypeMap_remove_keep(self, T) ==
  [self |-> self, ret |-> and_then_downcast(BTreeMap_get(self, T), T)]

\* TypeMap::remove::<T>()
TypeMap_remove(self, T) ==
  LET r == BTreeMap_remove(self, T)
  IN  [self |-> r.map, ret |-> and_then_downcast(r.old, T)]

\* TypeMap::clear()
TypeMap_clear(self) == BTreeMap_default

\* ----------------------------------------------------------- Injector
\* Injector::new() = Injector::default()
Injector_new == [values |-> TypeMap_new, parent |-> None]

\* mutant of Injector_with_parent: a second attachment detaches
\* (parent: self.parent.xor(Some(parent)))
Injector_with_parent_xor(self, parent) ==
  [values |-> self.values,
   parent |-> IF self.parent = None THEN Some(parent) ELSE None]

\* Injector::with_parent(self, parent)
Injector_with_parent(self, parent) ==
  [values |-> self.values, parent |-> Some(parent)]

\* mutant of Injector_add_value: the value goes into a fresh TypeMap
Injector_add_value_fresh(self, T, v) ==
  [self EXCEPT !.values = TypeMap_insert(TypeMap_new, T, v).self]

\* Injector::add_value::<T>(v)
Injector_add_value(self, T, v) ==
  [self EXCEPT !.values = TypeMap_insert(self.values, T, v).self]

\* mutant of Injector_get: the parent is asked first, the local TypeMap last
RECURSIVE Injector_get_outer(_, _, _)
Injector_get_outer(s, i, T) ==
  LET up == IF s[i].parent # None
            THEN Injector_get_outer(s, s[i].parent[1], T) ELSE None
  IN  IF up # None THEN up ELSE TypeMap_get(s[i].values, T)

\* Injector::get::<T>() on Injector i of store s
RECURSIVE Injector_get(_, _, _)
Injector_get(s, i, T) ==
  LET v == TypeMap_get(s[i].values, T)
  IN  IF v # None THEN v
      ELSE IF s[i].parent # None THEN Injector_get(s, s[i].parent[1], T)
      ELSE None

\* mutant of Injector_get_mut: the parent is asked first, the local TypeMap last
RECURSIVE Injector_get_mut_outer(_, _, _)
Injector_get_mut_outer(s, i, T) ==
  LET up == IF s[i].parent # None
            THEN Injector_get_mut_outer(s, s[i].parent[1], T) ELSE None
      v == TypeMap_get_mut(s[i].values, T)
  IN  IF up # None THEN up
      ELSE IF v # None THEN Some([inj |-> i, tid |-> v[1]])
      ELSE None

\* Injector::get_mut::<T>() on Injector i of store s: the place (owning
\* Injector and key) the returned &mut T points to
RECURSIVE Injector_get_mut(_, _, _)
Injector_get_mut(s, i, T) ==
  LET v == TypeMap_get_mut(s[i].values, T)
  IN  IF v # None THEN Some([inj |-> i, tid |-> v[1]])
      ELSE IF s[i].parent # None THEN Injector_get_mut(s, s[i].parent[1], T)
      ELSE None

\* reading through a &mut T
Deref(s, place) == s[place.inj].values[place.tid].val

\* *place = v
Assign(s, place, v) ==
  [s EXCEPT ![place.inj].values[place.tid].val = v]

\* ------------------------------------------------- call dispatch (lib.rs)
\* the callables the embedding program passes to call: plus and plus_3 of the
\* tests generalised to any parameter list, plus_one over each type, and inc
ParamLists == UNION {[1..n -> TypeIds] : n \in 2..MaxArity}
Funcs ==
  {[body |-> "plus", params |-> p] : p \in ParamLists}
  \cup {[body |-> "plus_one", params |-> <<T>>] : T \in TypeIds}
  \cup {[body |-> "inc", params |-> <<ArcMutexU32>>]}
NoFunc == [body |-> "", params |-> <<>>]

\* the u32 an argument of type T stands for: *a, or *a.lock().unwrap()
AsU32(T, v, h) == IF T = ArcMutexU32 THEN h[v] ELSE v

\* a + (*b as u32) + ...; the values modelled stay far below 2^32
RECURSIVE SumU32(_, _, _, _)
SumU32(params, args, h, k) ==
  IF k > Len(params) THEN 0
  ELSE AsU32(params[k], args[k], h) + SumU32(params, args, h, k + 1)

\* (self)(args): the result of the callable and the heap it leaves
Invoke(f, args, h) ==
  CASE f.body = "plus" ->
         [ret |-> Some(SumU32(f.params, args, h, 1)), heap |-> h]
    [] f.body = "plus_one" ->
         [ret |-> Some(AsU32(f.params[1], args[1], h) + 1), heap |-> h]
    [] f.body = "inc" ->
         [ret |-> Unit, heap |-> [h EXCEPT ![args[1]] = @ + 1]]

\* mutant of CallInjector_call: the arguments are looked up in the local
\* TypeMap only (inj.values.get::<A>().unwrap())
CallInjector_call_local(s, h, i, f) ==
  LET opts == [k \in 1..Len(f.params) |-> TypeMap_get(s[i].values, f.params[k])]
  IN  IF \E k \in 1..Len(f.params) : opts[k] = None
      THEN [panicked |-> TRUE, invoked |-> 0, args |-> <<>>,
            ret |-> Unit, heap |-> h]
      ELSE LET args == [k \in 1..Len(f.params) |-> opts[k][1]]
               r == Invoke(f, args, h)
           IN  [panicked |-> FALSE, invoked |-> 1, args |-> args,
                ret |-> r.ret, heap |-> r.heap]

\* mutant of CallInjector_call: a missing argument makes call return a
\* default result instead of panicking
CallInjector_call_or_default(s, h, i, f) ==
  LET opts == [k \in 1..Len(f.params) |-> Injector_get(s, i, f.params[k])]
  IN  IF \E k \in 1..Len(f.params) : opts[k] = None
      THEN [panicked |-> FALSE, invoked |-> 0, args |-> <<>>,
            ret |-> Some(0), heap |-> h]
      ELSE LET args == [k \in 1..Len(f.params) |-> opts[k][1]]
               r == Invoke(f, args, h)
           IN  [panicked |-> FALSE, invoked |-> 1, args |-> args,
                ret |-> r.ret, heap |-> r.heap]

\* mutant of CallInjector_call: the callable gets clones of the registered
\* values (a shared cell copied with its content), so what it writes is lost
CallInjector_call_by_value(s, h, i, f) ==
  LET opts == [k \in 1..Len(f.params) |-> Injector_get(s, i, f.params[k])]
  IN  IF \E k \in 1..Len(f.params) : opts[k] = None
      THEN [panicked |-> TRUE, invoked |-> 0, args |-> <<>>,
            ret |-> Unit, heap |-> h]
      ELSE LET args == [k \in 1..Len(f.params) |-> opts[k][1]]
               r == Invoke(f, args, h)
           IN  [panicked |-> FALSE, invoked |-> 1, args |-> args,
                ret |-> r.ret, heap |-> h]

\* CallInjector::call(&f, inj) as factory_tuple! generates it:
\* (self)(inj.get::<A>().unwrap(), inj.get::<B>().unwrap(), ...).
\* An unwrap of None panics before the callable is entered.
CallInjector_call(s, h, i, f) ==
  LET opts == [k \in 1..Len(f.params) |-> Injector_get(s, i, f.params[k])]
  IN  IF \E k \in 1..Len(f.params) : opts[k] = None
      THEN [panicked |-> TRUE, invoked |-> 0, args |-> <<>>,
            ret |-> Unit, heap |-> h]
      ELSE LET args == [k \in 1..Len(f.params) |-> opts[k][1]]
               r == Invoke(f, args, h)
           IN  [panicked |-> FALSE, invoked |-> 1, args |-> args,
                ret |-> r.ret, heap |-> r.heap]

\* Injector::call(f)
Injector_call(s, h, i, f) == CallInjector_call(s, h, i, f)

\* ------------------------------------------------------------ actions
\* the record kept of the operation performed last
Op(op, i, T, arg, old, ret) ==
  [op |-> op, inj |-> i, tid |-> T, arg |-> arg, old |-> old, ret |-> ret,
   f |-> NoFunc, args |-> <<>>, invoked |-> 0, panicked |-> FALSE]

\* An observation (get, get_mut with nothing written, call of a callable that
\* writes nothing) leaves inj, borrowed and heap as they were, so whatever the
\* program does after it, it does as well without it: a run is explored up to
\* its first observation, which keeps every pair of a state and a result.
Observed ==
  \/ last.op \in {"get", "get_mut"}
  \/ last.op = "call" /\ last.f.body # "inc"

\* Injectors that were never used are all alike (empty, no parent, not
\* borrowed), so the program is taken to name its Injectors in the order it
\* first uses them: 1, then 2, ...
Used(i) == inj[i] # Injector_new \/ i \in borrowed
InOrder(S) == \A i \in S : \A j \in 1..(i - 1) : Used(j) \/ j \in S

\* what every operation on Injector i waits for
CanUse(i) == i \notin borrowed /\ ops < MaxOps /\ ~Observed

Init ==
  /\ inj = [i \in Ids |-> Injector_new]
  /\ borrowed = {}
  /\ heap = [c \in Cells |-> CellInit]
  /\ last = Op("new", 0, "", 0, None, Unit)
  /\ ops = 0
  /\ tm = TypeMap_new
  /\ tmLast = [op |-> "new", tid |-> "", arg |-> 0, old |-> None, ret |-> Unit]

\* i.add_value(v) with v of type T
AddValue(i, T, v) ==
  /\ CanUse(i)
  /\ InOrder({i})
  /\ inj' = [inj EXCEPT ![i] = Injector_add_value(inj[i], T, v)]
  /\ last' = Op("add_value", i, T, v, TypeMap_get(inj[i].values, T), Unit)
  /\ ops' = ops + 1
  /\ UNCHANGED <<borrowed, heap, tm, tmLast>>

\* let c = c.with_parent(&mut p): p stays mutably borrowed from here on
WithParent(c, p) ==
  /\ c # p
  /\ CanUse(c)
  /\ CanUse(p)
  /\ InOrder({c, p})
  /\ inj' = [inj EXCEPT ![c] = Injector_with_parent(inj[c], p)]
  /\ borrowed' = borrowed \cup {p}
  /\ last' = Op("with_parent", c, "", p, inj[c].parent, Unit)
  /\ ops' = ops + 1
  /\ UNCHANGED <<heap, tm, tmLast>>

\* i.get::<T>()
Get(i, T) ==
  /\ CanUse(i)
  /\ InOrder({i})
  /\ last' = Op("get", i, T, 0, None, Injector_get(inj, i, T))
  /\ ops' = ops + 1
  /\ UNCHANGED <<inj, borrowed, heap, tm, tmLast>>

\* i.get_mut::<T>(), the reference only read; old is the Injector it points into
GetMut(i, T) ==
  /\ CanUse(i)
  /\ InOrder({i})
  /\ LET r == Injector_get_mut(inj, i, T)
     IN  last' = IF r = None
                 THEN Op("get_mut", i, T, 0, None, None)
                 ELSE Op("get_mut", i, T, 0, Some(r[1].inj), Some(Deref(inj, r[1])))
  /\ ops' = ops + 1
  /\ UNCHANGED <<inj, borrowed, heap, tm, tmLast>>

\* if let Some(r) = i.get_mut::<T>() { *r = v }
GetMutWrite(i, T, v) ==
  /\ CanUse(i)
  /\ InOrder({i})
  /\ LET r == Injector_get_mut(inj, i, T)
     IN  IF r = None
         THEN /\ inj' = inj
              /\ last' = Op("get_mut_write", i, T, v, None, None)
         ELSE /\ inj' = Assign(inj, r[1], v)
              /\ last' = Op("get_mut_write", i, T, v, Some(r[1].inj),
                            Some(Deref(inj, r[1])))
  /\ ops' = ops + 1
  /\ UNCHANGED <<borrowed, heap, tm, tmLast>>

\* i.call(f)
Call(i, f) ==
  /\ CanUse(i)
  /\ InOrder({i})
  /\ LET r == Injector_call(inj, heap, i, f)
     IN  /\ heap' = r.heap
         /\ last' = [Op("call", i, "", 0, None, r.ret) EXCEPT
                       !.f = f, !.args = r.args, !.invoked = r.invoked,
                       !.panicked = r.panicked]
  /\ ops' = ops + 1
  /\ UNCHANGED <<inj, borrowed, tm, tmLast>>

Next ==
  \/ \E i \in Ids, T \in TypeIds : \E v \in ValuesOf(T) : AddValue(i, T, v)
  \/ \E c \in Ids, p \in Ids : WithParent(c, p)
  \/ \E i \in Ids, T \in TypeIds : Get(i, T)
  \/ \E i \in Ids, T \in TypeIds : GetMut(i, T)
  \/ \E i \in Ids, T \in TypeIds : \E v \in ValuesOf(T) : GetMutWrite(i, T, v)
  \/ \E i \in Ids, f \in Funcs : Call(i, f)

Spec == Init /\ [][Next]_vars

\* ------------------------------------------- a TypeMap used on its own
TmOp(op, T, arg, old, ret) ==
  [op |-> op, tid |-> T, arg |-> arg, old |-> old, ret |-> ret]

\* tm.insert(v) with v of type T; old is the value of type T held before
TmInsert(T, v) ==
  /\ LET r == TypeMap_insert(tm, T, v)
     IN  /\ tm' = r.self
         /\ tmLast' = TmOp("insert", T, v, TypeMap_get(tm, T), r.ret)
  /\ UNCHANGED injVars

\* tm.contains::<T>(), the bool returned as 1 or 0
TmContains(T) ==
  /\ tmLast' = TmOp("contains", T, 0, None,
                    Some(IF TypeMap_contains(tm, T) THEN 1 ELSE 0))
  /\ UNCHANGED <<tm, injVars>>

\* tm.get::<T>()
TmGet(T) ==
  /\ tmLast' = TmOp("get", T, 0, None, TypeMap_get(tm, T))
  /\ UNCHANGED <<tm, injVars>>

\* if let Some(r) = tm.get_mut::<T>() { *r = v }
TmGetMut(T, v) ==
  /\ LET r == TypeMap_get_mut(tm, T)
     IN  IF r = None
         THEN /\ tm' = tm
              /\ tmLast' = TmOp("get_mut", T, v, None, None)
         ELSE /\ tm' = [tm EXCEPT ![r[1]].val = v]
              /\ tmLast' = TmOp("get_mut", T, v, None, Some(tm[r[1]].val))
  /\ UNCHANGED injVars

\* tm.remove::<T>()
TmRemove(T) ==
  /\ LET r == TypeMap_remove(tm, T)
     IN  /\ tm' = r.self
         /\ tmLast' = TmOp("remove", T, 0, TypeMap_get(tm, T), r.ret)
  /\ UNCHANGED injVars

\* tm.clear()
TmClear ==
  /\ tm' = TypeMap_clear(tm)
  /\ tmLast' = TmOp("clear", "", 0, None, Unit)
  /\ UNCHANGED injVars

NextTM ==
  \/ \E T \in TypeIds : \E v \in ValuesOf(T) : TmInsert(T, v)
  \/ \E T \in TypeIds : TmContains(T)
  \/ \E T \in TypeIds : TmGet(T)
  \/ \E T \in TypeIds : \E v \in ValuesOf(T) : TmGetMut(T, v)
  \/ \E T \in TypeIds : TmRemove(T)
  \/ TmClear

SpecTM == Init /\ [][NextTM]_vars

\* ------------------------------------------------------------ properties
\* ScopeAt(s, i, d): the Injector d parent links above i, if there is one
RECURSIVE ScopeAt(_, _, _)
ScopeAt(s, i, d) ==
  IF d = 0 THEN Some(i)
  ELSE LET a == ScopeAt(s, i, d - 1)
       IN  IF a = None THEN None ELSE s[a[1]].parent

\* the distances from i at which a scope of i's chain holds a value of type T
HoldingDepths(s, i, T) ==
  {d \in 0..(NumInjectors - 1) :
     /\ ScopeAt(s, i, d) # None
     /\ T \in DOMAIN s[ScopeAt(s, i, d)[1]].values}

\* the nearest scope of i's chain that holds a value of type T, if any
NearestScope(s, i, T) ==
  LET H == HoldingDepths(s, i, T)
  IN  IF H = {} THEN None
      ELSE ScopeAt(s, i, CHOOSE d \in H : \A e \in H : d <= e)

\* the value of type T that scope holds
NearestValue(s, i, T) ==
  LET n == NearestScope(s, i, T)
  IN  IF n = None THEN None ELSE Some(s[n[1]].values[T].val)

\* the parent of i, its parent, and so on to the root
ProperAncestors(s, i) ==
  {ScopeAt(s, i, d)[1] :
     d \in {e \in 1..(NumInjectors - 1) : ScopeAt(s, i, e) # None}}

\* C1: right after i.add_value(v), with v of type T, i's local entry for T is v
\* alone (a value of T held locally before is replaced) and i.get::<T>()
\* returns v, whatever i and its ancestors held before.
C1_AddValueThenGet ==
  [][/\ (last'.op = "add_value" /\ ops' = ops + 1) =>
          /\ Injector_get(inj', last'.inj, last'.tid) = Some(last'.arg)
          /\ BTreeMap_get(inj'[last'.inj].values, last'.tid)
               = Some(Box(last'.tid, last'.arg))
     /\ (/\ last.op = "add_value" /\ last'.op = "get" /\ ops' = ops + 1
         /\ last'.inj = last.inj /\ last'.tid = last.tid) =>
          last'.ret = Some(last.arg)]_vars

\* add_value has replaced a different local value of the same type, in an
\* Injector whose parent holds a value of that type as well
C1_Witness ==
  /\ last.op = "add_value"
  /\ last.old # None /\ last.old # Some(last.arg)
  /\ inj[last.inj].parent # None
  /\ last.tid \in DOMAIN inj[inj[last.inj].parent[1]].values

\* C2: get::<T>() and get_mut::<T>() on an Injector resolve to the value held
\* by the nearest scope of its chain that holds T (itself, then its parent, its
\* grandparent, ... up to the root), and to None exactly when no scope does.
C2_NearestScopeWins ==
  /\ last.op = "get" => last.ret = NearestValue(inj, last.inj, last.tid)
  /\ last.op = "get_mut" =>
       /\ last.ret = NearestValue(inj, last.inj, last.tid)
       /\ last.old = NearestScope(inj, last.inj, last.tid)

\* get has found in the grandparent a type neither the Injector nor its
\* parent holds
C2_Witness ==
  /\ last.op = "get"
  /\ last.ret # None
  /\ HoldingDepths(inj, last.inj, last.tid) = {2}

\* C3: when every declared parameter type of f is held somewhere in the chain,
\* call(f) invokes f exactly once, passes at each position the value get
\* resolves for that position's type, and returns f's result.
C3_CallResolvesEachParameter ==
  (/\ last.op = "call"
   /\ \A k \in 1..Len(last.f.params) :
        NearestScope(inj, last.inj, last.f.params[k]) # None) =>
     /\ ~last.panicked
     /\ last.invoked = 1
     /\ Len(last.args) = Len(last.f.params)
     /\ \A k \in 1..Len(last.f.params) :
          Some(last.args[k]) = NearestValue(inj, last.inj, last.f.params[k])
     /\ last.f.body = "plus" =>
          last.ret = Some(SumU32(last.f.params, last.args, heap, 1))
     /\ last.f.body = "plus_one" =>
          last.ret = Some(AsU32(last.f.params[1], last.args[1], heap) + 1)
     /\ last.f.body = "inc" => last.ret = Unit

\* call has passed one argument found locally and one, of another type, found
\* in an ancestor
C3_Witness ==
  /\ last.op = "call" /\ ~last.panicked
  /\ Len(last.f.params) = 2
  /\ last.f.params[1] # last.f.params[2]
  /\ NearestScope(inj, last.inj, last.f.params[1]) = Some(last.inj)
  /\ NearestScope(inj, last.inj, last.f.params[2]) # None
  /\ NearestScope(inj, last.inj, last.f.params[2]) # Some(last.inj)

\* C4: when a declared parameter type of f is held by no scope of the chain,
\* call(f) panics: f is not invoked and no result is returned.
C4_MissingDependencyPanics ==
  (/\ last.op = "call"
   /\ \E k \in 1..Len(last.f.params) :
        NearestScope(inj, last.inj, last.f.params[k]) = None) =>
     /\ last.panicked
     /\ last.invoked = 0
     /\ last.args = <<>>
     /\ last.ret = Unit

\* call has panicked on a callable whose first parameter is registered and
\* whose second is not
C4_Witness ==
  /\ last.op = "call" /\ last.panicked
  /\ Len(last.f.params) = 2
  /\ NearestScope(inj, last.inj, last.f.params[1]) # None
  /\ NearestScope(inj, last.inj, last.f.params[2]) = None

\* C5: i.add_value(v), with v of type T, changes i's local entry for T and
\* nothing else: not i's other entries, not its parent link, not any other
\* Injector (its ancestors included), not the shared cells.
C5_AddValueFrame ==
  [][(last'.op = "add_value" /\ ops' = ops + 1) =>
       /\ \A j \in Ids \ {last'.inj} : inj'[j] = inj[j]
       /\ inj'[last'.inj].parent = inj[last'.inj].parent
       /\ \A T \in TypeIds \ {last'.tid} :
            BTreeMap_get(inj'[last'.inj].values, T)
              = BTreeMap_get(inj[last'.inj].values, T)
       /\ borrowed' = borrowed
       /\ heap' = heap]_vars

\* add_value has acted on an Injector that holds another type too and whose
\* parent holds a value of the type added
C5_Witness ==
  /\ last.op = "add_value"
  /\ DOMAIN inj[last.inj].values # {last.tid}
  /\ inj[last.inj].parent # None
  /\ last.tid \in DOMAIN inj[inj[last.inj].parent[1]].values

\* C6 as stated: no operation performed through an Injector changes the
\* TypeMap of any of its ancestors.
C6_NeverMutatesAncestors ==
  [][(last'.inj \in Ids /\ ops' = ops + 1) =>
       \A a \in ProperAncestors(inj, last'.inj) :
         inj'[a].values = inj[a].values]_vars

\* C6 amended: add_value, with_parent, get, get_mut (nothing written) and call
\* leave the TypeMap of every ancestor as it was; a write of v through the
\* reference get_mut::<T>() returns replaces the value of T in the nearest
\* scope holding T, an ancestor when the Injector holds no T itself, and
\* changes nothing else.
C6_OnlyGetMutWritesReachAncestors ==
  [][(last'.inj \in Ids /\ ops' = ops + 1) =>
       IF last'.op = "get_mut_write"
       THEN LET n == NearestScope(inj, last'.inj, last'.tid)
            IN  IF n = None THEN inj' = inj
                ELSE inj' = [inj EXCEPT ![n[1]].values =
                       [T \in DOMAIN inj[n[1]].values |->
                          IF T = last'.tid THEN Box(T, last'.arg)
                          ELSE inj[n[1]].values[T]]]
       ELSE \A a \in ProperAncestors(inj, last'.inj) :
              inj'[a].values = inj[a].values]_vars

\* a write through get_mut's reference has changed a value held by an ancestor
C6_Witness ==
  /\ last.op = "get_mut_write"
  /\ last.old # None /\ last.old # Some(last.inj)
  /\ last.ret # Some(last.arg)

\* C7 as stated: once an Injector has a parent link, the link stays what it is.
C7_ParentLinkFixed ==
  [][\A i \in Ids :
       inj[i].parent # None => inj'[i].parent = inj[i].parent]_vars

\* C7 amended: once an Injector has a parent link it never loses it, and only
\* with_parent on that Injector changes it: to the parent given, the local
\* values kept.
C7_ParentLinkNeverDetached ==
  [][\A i \in Ids :
       inj[i].parent # None =>
         /\ inj'[i].parent # None
         /\ inj'[i].parent # inj[i].parent =>
              /\ last'.op = "with_parent" /\ last'.inj = i
              /\ inj'[i].parent = Some(last'.arg)
              /\ inj'[i].values = inj[i].values]_vars

\* with_parent has acted on an Injector that had another parent already
C7_Witness ==
  /\ last.op = "with_parent"
  /\ last.old # None /\ last.old # Some(last.arg)
  /\ inj[last.inj].parent = Some(last.arg)

\* C8: remove::<T>() returns the value stored for T (nothing if T is absent);
\* afterwards get::<T>() returns nothing, contains::<T>() is false, and the
\* entries of the other types are as before.
C8_RemoveReturnsAndDeletes ==
  [][tmLast'.op = "remove" =>
       /\ tmLast'.ret = IF tmLast'.tid \in DOMAIN tm
                        THEN Some(tm[tmLast'.tid].val) ELSE None
       /\ TypeMap_get(tm', tmLast'.tid) = None
       /\ ~TypeMap_contains(tm', tmLast'.tid)
       /\ \A T \in TypeIds \ {tmLast'.tid} :
            BTreeMap_get(tm', T) = BTreeMap_get(tm, T)]_vars

\* remove has returned a value and left entries of other types behind
C8_Witness ==
  /\ tmLast.op = "remove"
  /\ tmLast.ret # None
  /\ DOMAIN tm # {}

\* C9: call changes no entry of any Injector, and passes the registered value
\* itself: inc run through call increments the very cell that is registered,
\* and plus_one run through call returns that cell's current content plus one
\* (cell created with 20: 21; after one inc: 22).
C9_CallPassesTheRegisteredValue ==
  [][(last'.op = "call" /\ ops' = ops + 1) =>
       LET c == NearestValue(inj, last'.inj, ArcMutexU32)
       IN  /\ inj' = inj
           /\ borrowed' = borrowed
           /\ last'.f.body # "inc" => heap' = heap
           /\ (~last'.panicked /\ last'.f.body = "inc") =>
                heap' = [heap EXCEPT ![c[1]] = heap[c[1]] + 1]
           /\ (~last'.panicked /\ last'.f.body = "plus_one"
                 /\ last'.f.params = <<ArcMutexU32>>) =>
                last'.ret = Some(heap[c[1]] + 1)]_vars

\* plus_one run through call has returned 22: the cell was registered with 20
\* and inc was run through call once
C9_Witness ==
  /\ last.op = "call" /\ ~last.panicked
  /\ last.f.body = "plus_one" /\ last.f.params = <<ArcMutexU32>>
  /\ last.ret = Some(CellInit + 2)
  /\ heap[last.args[1]] = CellInit + 1

\* C10: insert of a value whose type already has an entry returns the value
\* stored before.
C10_InsertReturnsPrevious ==
  (tmLast.op = "insert" /\ tmLast.old # None) => tmLast.ret = tmLast.old

====
